---- MODULE Spec2Model ----
(***************************************************************************)
(* Model of src/run_server.py: the plane detection server.                 *)
(*                                                                         *)
(*   main                          the acquisition / detection / publish   *)
(*                                 loop (lines 134-184)                    *)
(*   PlaneResultsPublisher.publish flattening of the plane list (68-81)    *)
(*   PlanePosePublisher.publish    pose of the first plane (88-131)        *)
(*   read_config_file              start-up configuration check (50-60)    *)
(*                                                                         *)
(* The plane detector and the image subscribers are imported modules whose *)
(* code is not part of run_server.py.  They are modelled from the          *)
(* specification: a subscriber is a single slot holding the latest frame,  *)
(* and a PlaneParam carries a 3-component normal, a 3-component 3D centre, *)
(* a 2-component 2D centre and a 3-component mask colour.                  *)
(*                                                                         *)
(* Numbers are exact.  The quotient x / sqrt(s) is kept as the pair        *)
(* [num |-> x, sumsq |-> s]; with s = 0 it is what numpy yields for a      *)
(* division by zero (nan or +-inf), which is no exception.                 *)
(***************************************************************************)
EXTENDS Integers, Sequences, FiniteSets, TLC

\* ------------------------------------------------------------- bounds
\* Longest plane list the detector returns.
MaxPlanes == 2

\* Number of frames each stream delivers.
MaxFrames == 2

VARIABLES
    pc,              \* position of main
    err,             \* the uncaught exception that ended main, or "none"
    config,          \* the configuration file: whether it exists, its content
    publishers,      \* publishers main has created
    colorConfigured, \* bool(args.color_topic): sub_color is not None
    shutdown,        \* rospy.is_shutdown()
    shutdownAt,      \* where main was when shutdown was requested
    dSeq,            \* depth frames delivered so far
    cSeq,            \* colour frames delivered so far
    depthSlot,       \* sub_depth: the buffered frame, 0 when empty
    colorSlot,       \* sub_color: the buffered frame, 0 when empty
    depth,           \* main's local depth (0: unset)
    color,           \* main's local color (0: None)
    planes,          \* main's local list_plane_params
    detections,      \* detect_planes calls that returned
    nMask,           \* messages received by the colored mask topic
    nViz,            \* messages received by the visualisation topic
    nResult,         \* messages received by the result topic
    nPose,           \* messages received by the pose topic
    lastResult,      \* last PlanesResults message published
    pos,             \* PlanePosePublisher.publish's local pos
    lastPose,        \* last Pose message published
    acosArgs,        \* arguments np.arccos was called with, last derivation
    depthTaken,      \* sub_depth.get_image() calls so far
    colorTaken       \* sub_color.get_image() calls so far

vars == << pc, err, config, publishers, colorConfigured, shutdown, shutdownAt,
           dSeq, cSeq,
           depthSlot, colorSlot, depth, color, planes, detections,
           nMask, nViz, nResult, nPose, lastResult, pos, lastPose, acosArgs,
           depthTaken, colorTaken >>

\* ------------------------------------------------------------ helpers
Min(a, b) == IF a < b THEN a ELSE b

\* Python s[a:b] for 0 <= a <= b on a list (never raises).
Slice(s, a, b) == SubSeq(s, a + 1, Min(b, Len(s)))

\* Python s[i] is an IndexError unless 0 <= i < len(s).
InRange(s, i) == i >= 0 /\ i < Len(s)

RECURSIVE SumSq(_)
\* np.sum(v ** 2)
SumSq(v) == IF v = << >> THEN 0 ELSE v[1] * v[1] + SumSq(Tail(v))

\* ------------------------------------------- detector output (modelled)
\* A PlaneParam as the detector delivers it.
PlaneParam(n, c3, c2, mc) ==
    [ w |-> n, pts_3d_center |-> c3, pts_2d_center |-> c2, mask_color |-> mc ]

\* The planes the detector chooses from.
PlaneSet ==
    { PlaneParam(<< 0, 0, 1 >>, << 0, 0, 2 >>, << 3, 4 >>, << 255, 0, 0 >>),
      PlaneParam(<< 1, 0, 0 >>, << 1, 1, 1 >>, << 5, 6 >>, << 0, 255, 0 >>),
      PlaneParam(<< 2, -1, 2 >>, << 4, 5, 6 >>, << 7, 8 >>, << 0, 0, 255 >>),
      PlaneParam(<< 0, 0, 1 >>, << 9, 9, 9 >>, << 1, 2 >>, << 8, 8, 8 >>) }

\* The plane lists detect_planes may return.
PlaneLists == UNION { [1..n -> PlaneSet] : n \in 0..MaxPlanes }

\* ------------------------------------------------ PlaneResultsPublisher
RECURSIVE FlattenPrepending(_, _)
\* Flatten with each plane's attribute inserted at the front of the list
\* instead of appended: the planes come out in reverse order.
FlattenPrepending(plane_params, attr) ==
    IF plane_params = << >> THEN << >>
    ELSE FlattenPrepending(Tail(plane_params), attr) \o plane_params[1][attr]

RECURSIVE Flatten(_, _)
\* The for loop of publish: list.extend of one attribute, plane by plane.
Flatten(plane_params, attr) ==
    IF plane_params = << >> THEN << >>
    ELSE plane_params[1][attr] \o Flatten(Tail(plane_params), attr)

\* ResultsMsg with norms assigned from each plane instead of extended: only
\* the last plane's normal is left in the message.
ResultsMsgNormsAssigned(plane_params) ==
    [ N          |-> Len(plane_params),
      norms      |-> IF plane_params = << >> THEN << >>
                     ELSE plane_params[Len(plane_params)].w,
      center_3d  |-> Flatten(plane_params, "pts_3d_center"),
      center_2d  |-> Flatten(plane_params, "pts_2d_center"),
      mask_color |-> Flatten(plane_params, "mask_color") ]

\* The message PlaneResultsPublisher.publish builds.
ResultsMsg(plane_params) ==
    [ N          |-> Len(plane_params),
      norms      |-> Flatten(plane_params, "w"),
      center_3d  |-> Flatten(plane_params, "pts_3d_center"),
      center_2d  |-> Flatten(plane_params, "pts_2d_center"),
      mask_color |-> Flatten(plane_params, "mask_color") ]

\* The result topic before anything is published on it.
NoResults ==
    [ N |-> -1, norms |-> << >>, center_3d |-> << >>, center_2d |-> << >>,
      mask_color |-> << >> ]

\* ------------------------------------------------- PlanePosePublisher
\* Pose(): position at the origin, orientation all zero.
DefaultPose ==
    [ position |-> << 0, 0, 0 >>,
      orientation |-> [ kind |-> "zero", factors |-> << >> ] ]

\* The pose topic before anything is published on it.
NoPose ==
    [ position |-> << >>,
      orientation |-> [ kind |-> "none", factors |-> << >> ] ]

\* v2_unnorm = np.array(res.norms[1:4])
V2Unnorm(norms) == Slice(norms, 1, 4)

\* v2 = v2_unnorm / np.sqrt(np.sum(v2_unnorm**2))
V2(norms) ==
    LET u == V2Unnorm(norms)
    IN  [ i \in 1..Len(u) |-> [ num |-> u[i], sumsq |-> SumSq(u) ] ]

\* Quaternion(axis=..., radians=np.arccos(arg))
AxisQuat(axis, arg) == [ axis |-> axis, arccos_of |-> arg ]

\* The body of the for loop over plane_params[0:1], for its one plane pp:
\* ok is FALSE when an index raises IndexError; acos lists the arguments
\* np.arccos was given before that.
PoseOfPlane(pp) ==
    LET norms == pp.w
        v2    == V2(norms)
        nacos == Min(3, Len(v2))
        done  == Len(v2) >= 3 /\ InRange(norms, 3)
    IN  [ ok   |-> done,
          acos |-> SubSeq(v2, 1, nacos),
          pose |-> IF done
                   THEN [ position |-> << norms[2], norms[3], norms[4] >>,
                          orientation |->
                              [ kind |-> "product",
                                factors |-> << AxisQuat("x", v2[1]),
                                               AxisQuat("y", v2[2]),
                                               AxisQuat("z", v2[3]) >> ] ]
                   ELSE DefaultPose ]

\* DerivePoseOf reading the first plane as plane_params[0] instead of
\* looping over plane_params[0:1]: an empty list is an IndexError.
DerivePoseOfIndexFirst(plane_params) ==
    IF plane_params = << >>
    THEN [ ok |-> FALSE, acos |-> << >>, pose |-> DefaultPose ]
    ELSE PoseOfPlane(plane_params[1])

\* PlanePosePublisher.publish up to, not including, self._pub.publish(pos).
DerivePoseOf(plane_params) ==
    LET first == Slice(plane_params, 0, 1)
    IN  IF first = << >>
        THEN [ ok |-> TRUE, acos |-> << >>, pose |-> DefaultPose ]
        ELSE PoseOfPlane(first[1])

\* ------------------------------------------------------------- main
Terminal == { "SHUTDOWN", "ERROR" }

\* The keys main reads from the configuration, in the order of lines
\* 148-151.
TopicKeys ==
    << "topic_colored_mask", "topic_image_viz", "topic_result", "topic_pose" >>

\* The configuration files main may be started with: none, one that is
\* not YAML, one whose YAML is no mapping (an empty file, a list, a
\* scalar), and mappings with any of the topic keys.
ConfigFiles ==
    { [ file |-> f, keys |-> { } ] :
          f \in { "missing", "invalid_yaml", "not_a_mapping" } }
        \cup { [ file |-> "mapping", keys |-> K ] :
                   K \in SUBSET { TopicKeys[i] : i \in DOMAIN TopicKeys } }

\* os.path.exists(config_file_path)
configExists == config.file # "missing"

\* The number of topic keys found before the first missing one.
LeadingKeys(keys) ==
    IF \A i \in DOMAIN TopicKeys : TopicKeys[i] \in keys
    THEN Len(TopicKeys)
    ELSE (CHOOSE i \in DOMAIN TopicKeys :
              /\ TopicKeys[i] \notin keys
              /\ \A j \in 1..(i - 1) : TopicKeys[j] \in keys) - 1

Init ==
    /\ pc = "START"
    /\ err = "none"
    /\ config \in ConfigFiles
    /\ publishers = 0
    /\ colorConfigured \in BOOLEAN
    /\ shutdown = FALSE
    /\ shutdownAt = "never"
    /\ dSeq = 0
    /\ cSeq = 0
    /\ depthSlot = 0
    /\ colorSlot = 0
    /\ depth = 0
    /\ color = 0
    /\ planes = << >>
    /\ detections = 0
    /\ nMask = 0
    /\ nViz = 0
    /\ nResult = 0
    /\ nPose = 0
    /\ lastResult = NoResults
    /\ pos = DefaultPose
    /\ lastPose = NoPose
    /\ acosArgs = << >>
    /\ depthTaken = 0
    /\ colorTaken = 0

\* AfterGetDepth waiting for a colour frame whether or not there is a
\* colour subscriber.
AfterGetDepthAlwaysColor(cc) == "WAITING_COLOR"

\* The state main goes to after depth = sub_depth.get_image().
AfterGetDepth(cc) == IF cc THEN "WAITING_COLOR" ELSE "DETECTING"

\* Lines 136-144: the detector and the subscribers are created; from here
\* on frames are delivered.
Startup ==
    /\ pc = "START"
    /\ pc' = "READ_CONFIG"
    /\ UNCHANGED << err, config, publishers, colorConfigured, shutdown, shutdownAt, dSeq,
                    cSeq, depthSlot, colorSlot, depth, color, planes,
                    detections, nMask, nViz, nResult, nPose, lastResult, pos,
                    lastPose, acosArgs, depthTaken, colorTaken >>

\* ReadConfig without the os.path.exists test of read_config_file.
ReadConfigNoExistsCheck ==
    /\ pc = "READ_CONFIG"
    /\ IF config.file = "invalid_yaml"
       THEN pc' = "ERROR" /\ err' = "yaml"
       ELSE pc' = "CREATE_PUBLISHERS" /\ err' = err
    /\ UNCHANGED << config, publishers, colorConfigured, shutdown, shutdownAt, dSeq,
                    cSeq, depthSlot, colorSlot, depth, color, planes,
                    detections, nMask, nViz, nResult, nPose, lastResult, pos,
                    lastPose, acosArgs, depthTaken, colorTaken >>

\* Line 147, read_config_file (lines 50-60): RuntimeError when the file does
\* not exist, the yaml error when yaml.safe_load raises; main catches
\* neither.
ReadConfig ==
    /\ pc = "READ_CONFIG"
    /\ IF ~configExists
       THEN pc' = "ERROR" /\ err' = "config"
       ELSE IF config.file = "invalid_yaml"
       THEN pc' = "ERROR" /\ err' = "yaml"
       ELSE pc' = "CREATE_PUBLISHERS" /\ err' = err
    /\ UNCHANGED << config, publishers, colorConfigured, shutdown, shutdownAt, dSeq,
                    cSeq, depthSlot, colorSlot, depth, color, planes,
                    detections, nMask, nViz, nResult, nPose, lastResult, pos,
                    lastPose, acosArgs, depthTaken, colorTaken >>

\* Lines 148-151: the four publishers, each from config[<topic key>]:
\* TypeError when the file did not hold a mapping, KeyError at the first
\* key that is missing, after the publishers before it were created.
CreatePublishers ==
    /\ pc = "CREATE_PUBLISHERS"
    /\ IF config.file # "mapping"
       THEN pc' = "ERROR" /\ err' = "type" /\ publishers' = publishers
       ELSE /\ publishers' = LeadingKeys(config.keys)
            /\ IF LeadingKeys(config.keys) = Len(TopicKeys)
               THEN pc' = "WAITING_DEPTH" /\ err' = err
               ELSE pc' = "ERROR" /\ err' = "key"
    /\ UNCHANGED << config, colorConfigured, shutdown, shutdownAt, dSeq,
                    cSeq, depthSlot, colorSlot, depth, color, planes,
                    detections, nMask, nViz, nResult, nPose, lastResult, pos,
                    lastPose, acosArgs, depthTaken, colorTaken >>

\* Lines 154-155: while not rospy.is_shutdown(): if sub_depth.has_image():
LoopTop ==
    /\ pc = "WAITING_DEPTH"
    /\ pc' = IF shutdown THEN "SHUTDOWN"
             ELSE IF depthSlot # 0 THEN "GET_DEPTH"
             ELSE "WAITING_DEPTH"
    /\ UNCHANGED << err, config, publishers, colorConfigured, shutdown, shutdownAt, dSeq, cSeq,
                    depthSlot, colorSlot, depth, color, planes, detections,
                    nMask, nViz, nResult, nPose, lastResult, pos, lastPose,
                    acosArgs,
                    depthTaken, colorTaken >>

\* Lines 158-159 and 163-164: depth = sub_depth.get_image(); color = None
\* when there is no colour subscriber.
GetDepth ==
    /\ pc = "GET_DEPTH"
    /\ depth' = depthSlot
    /\ depthSlot' = 0
    /\ color' = IF colorConfigured THEN color ELSE 0
    /\ pc' = AfterGetDepth(colorConfigured)
    /\ depthTaken' = depthTaken + 1
    /\ UNCHANGED << err, config, publishers, colorConfigured, shutdown, shutdownAt, dSeq, cSeq,
                    colorSlot, planes, detections, nMask, nViz, nResult,
                    nPose, lastResult, pos, lastPose, acosArgs, colorTaken >>

\* Line 160: while not sub_color.has_image():
PollColor ==
    /\ pc = "WAITING_COLOR"
    /\ pc' = IF colorSlot # 0 THEN "GET_COLOR" ELSE "COLOR_SLEEP"
    /\ UNCHANGED << err, config, publishers, colorConfigured, shutdown, shutdownAt,
                    dSeq, cSeq, depthSlot, colorSlot, depth, color, planes,
                    detections, nMask, nViz, nResult, nPose, lastResult, pos,
                    lastPose, acosArgs,
                    depthTaken, colorTaken >>

\* Line 161: rospy.sleep(0.005) returns and the condition is tested again.
ColorSleep ==
    /\ pc = "COLOR_SLEEP"
    /\ pc' = "WAITING_COLOR"
    /\ UNCHANGED << err, config, publishers, colorConfigured, shutdown, shutdownAt,
                    dSeq, cSeq, depthSlot, colorSlot, depth, color, planes,
                    detections, nMask, nViz, nResult, nPose, lastResult, pos,
                    lastPose, acosArgs,
                    depthTaken, colorTaken >>

\* GetColor reading the depth frame again after the colour wait, when a
\* newer one is buffered.
GetColorRereadsDepth ==
    /\ pc = "GET_COLOR"
    /\ color' = colorSlot
    /\ colorSlot' = 0
    /\ depth' = IF depthSlot # 0 THEN depthSlot ELSE depth
    /\ depthSlot' = 0
    /\ depthTaken' = IF depthSlot # 0 THEN depthTaken + 1 ELSE depthTaken
    /\ pc' = "DETECTING"
    /\ colorTaken' = colorTaken + 1
    /\ UNCHANGED << err, config, publishers, colorConfigured, shutdown, shutdownAt,
                    dSeq, cSeq, planes, detections, nMask, nViz, nResult,
                    nPose, lastResult, pos, lastPose, acosArgs >>

\* Line 162: color = sub_color.get_image()
GetColor ==
    /\ pc = "GET_COLOR"
    /\ color' = colorSlot
    /\ colorSlot' = 0
    /\ pc' = "DETECTING"
    /\ colorTaken' = colorTaken + 1
    /\ UNCHANGED << err, config, publishers, colorConfigured, shutdown, shutdownAt, dSeq, cSeq,
                    depthSlot, depth, planes, detections, nMask, nViz,
                    nResult, nPose, lastResult, pos, lastPose, acosArgs,
                    depthTaken >>

\* DetectReturns with the pose publisher called before the other three.
DetectReturnsPoseFirst ==
    /\ pc = "DETECTING"
    /\ \E pl \in PlaneLists : planes' = pl
    /\ detections' = detections + 1
    /\ pc' = "DERIVE_POSE"
    /\ UNCHANGED << err, config, publishers, colorConfigured, shutdown, shutdownAt,
                    dSeq, cSeq, depthSlot, colorSlot, depth, color, nMask,
                    nViz, nResult, nPose, lastResult, pos, lastPose,
                    acosArgs,
                    depthTaken, colorTaken >>

\* Lines 170-175: detector.detect_planes(depth, color) returns a plane list.
DetectReturns ==
    /\ pc = "DETECTING"
    /\ \E pl \in PlaneLists : planes' = pl
    /\ detections' = detections + 1
    /\ pc' = "PUB_MASK"
    /\ UNCHANGED << err, config, publishers, colorConfigured, shutdown, shutdownAt, dSeq, cSeq,
                    depthSlot, colorSlot, depth, color, nMask, nViz, nResult,
                    nPose, lastResult, pos, lastPose, acosArgs,
                    depthTaken, colorTaken >>

\* DetectRaises with the call wrapped in try/except and the loop going on.
DetectRaisesCaught ==
    /\ pc = "DETECTING"
    /\ pc' = "WAITING_DEPTH"
    /\ err' = "detect"
    /\ UNCHANGED << config, publishers, colorConfigured, shutdown, shutdownAt, dSeq,
                    cSeq, depthSlot, colorSlot, depth, color, planes,
                    detections, nMask, nViz, nResult, nPose, lastResult, pos,
                    lastPose, acosArgs,
                    depthTaken, colorTaken >>

\* Lines 170-171: detector.detect_planes raises; main has no try/except.
DetectRaises ==
    /\ pc = "DETECTING"
    /\ pc' = "ERROR"
    /\ err' = "detect"
    /\ UNCHANGED << config, publishers, colorConfigured, shutdown, shutdownAt, dSeq, cSeq,
                    depthSlot, colorSlot, depth, color, planes, detections,
                    nMask, nViz, nResult, nPose, lastResult, pos, lastPose,
                    acosArgs,
                    depthTaken, colorTaken >>

\* Line 178: pub_colored_mask.publish(colored_mask)
PubMask ==
    /\ pc = "PUB_MASK"
    /\ nMask' = nMask + 1
    /\ pc' = "PUB_VIZ"
    /\ UNCHANGED << err, config, publishers, colorConfigured, shutdown, shutdownAt, dSeq, cSeq,
                    depthSlot, colorSlot, depth, color, planes, detections,
                    nViz, nResult, nPose, lastResult, pos, lastPose,
                    acosArgs,
                    depthTaken, colorTaken >>

\* Line 179: pub_image_viz.publish(img_viz)
PubViz ==
    /\ pc = "PUB_VIZ"
    /\ nViz' = nViz + 1
    /\ pc' = "PUB_RESULT"
    /\ UNCHANGED << err, config, publishers, colorConfigured, shutdown, shutdownAt, dSeq, cSeq,
                    depthSlot, colorSlot, depth, color, planes, detections,
                    nMask, nResult, nPose, lastResult, pos, lastPose,
                    acosArgs,
                    depthTaken, colorTaken >>

\* Line 180: pub_results.publish(list_plane_params)
PubResult ==
    /\ pc = "PUB_RESULT"
    /\ lastResult' = ResultsMsg(planes)
    /\ nResult' = nResult + 1
    /\ pc' = "DERIVE_POSE"
    /\ UNCHANGED << err, config, publishers, colorConfigured, shutdown, shutdownAt, dSeq, cSeq,
                    depthSlot, colorSlot, depth, color, planes, detections,
                    nMask, nViz, nPose, pos, lastPose, acosArgs,
                    depthTaken, colorTaken >>

\* Line 181 entering PlanePosePublisher.publish, lines 94-128: the pose is
\* derived; an IndexError leaves publish and main.
DerivePose ==
    /\ pc = "DERIVE_POSE"
    /\ LET r == DerivePoseOf(planes)
       IN  /\ acosArgs' = r.acos
           /\ IF r.ok
              THEN pos' = r.pose /\ pc' = "PUB_POSE" /\ err' = err
              ELSE pos' = pos /\ pc' = "ERROR" /\ err' = "pose"
    /\ UNCHANGED << config, publishers, colorConfigured, shutdown, shutdownAt, dSeq, cSeq,
                    depthSlot, colorSlot, depth, color, planes, detections,
                    nMask, nViz, nResult, nPose, lastResult, lastPose,
                    depthTaken, colorTaken >>

\* Line 130: self._pub.publish(pos), then back to the top of the loop.
PubPose ==
    /\ pc = "PUB_POSE"
    /\ lastPose' = pos
    /\ nPose' = nPose + 1
    /\ pc' = "WAITING_DEPTH"
    /\ UNCHANGED << err, config, publishers, colorConfigured, shutdown, shutdownAt, dSeq, cSeq,
                    depthSlot, colorSlot, depth, color, planes, detections,
                    nMask, nViz, nResult, lastResult, pos, acosArgs,
                    depthTaken, colorTaken >>

\* ------------------------------------------------------- environment
\* The depth subscriber's callback: the new frame replaces the buffered one.
DepthArrives ==
    /\ pc \notin Terminal \cup { "START" }
    /\ dSeq < MaxFrames
    /\ dSeq' = dSeq + 1
    /\ depthSlot' = dSeq + 1
    /\ UNCHANGED << pc, err, config, publishers, colorConfigured, shutdown, shutdownAt, cSeq,
                    colorSlot, depth, color, planes, detections, nMask, nViz,
                    nResult, nPose, lastResult, pos, lastPose, acosArgs,
                    depthTaken, colorTaken >>

\* The colour subscriber's callback, when a colour topic is configured.
ColorArrives ==
    /\ pc \notin Terminal \cup { "START" }
    /\ colorConfigured
    /\ cSeq < MaxFrames
    /\ cSeq' = cSeq + 1
    /\ colorSlot' = cSeq + 1
    /\ UNCHANGED << pc, err, config, publishers, colorConfigured, shutdown, shutdownAt, dSeq,
                    depthSlot, depth, color, planes, detections, nMask, nViz,
                    nResult, nPose, lastResult, pos, lastPose, acosArgs,
                    depthTaken, colorTaken >>

\* The external shutdown request: rospy.is_shutdown() becomes true.
SignalShutdown ==
    /\ pc \notin Terminal
    /\ ~shutdown
    /\ shutdown' = TRUE
    /\ shutdownAt' = pc
    /\ UNCHANGED << pc, err, config, publishers, colorConfigured, dSeq, cSeq,
                    depthSlot, colorSlot, depth, color, planes, detections,
                    nMask, nViz, nResult, nPose, lastResult, pos, lastPose,
                    acosArgs,
                    depthTaken, colorTaken >>

\* The steps of main.
Loop ==
    \/ Startup
    \/ ReadConfig
    \/ CreatePublishers
    \/ LoopTop
    \/ GetDepth
    \/ PollColor
    \/ ColorSleep
    \/ GetColor
    \/ DetectReturns
    \/ DetectRaises
    \/ PubMask
    \/ PubViz
    \/ PubResult
    \/ DerivePose
    \/ PubPose

Next ==
    \/ Startup
    \/ ReadConfig
    \/ CreatePublishers
    \/ LoopTop
    \/ GetDepth
    \/ PollColor
    \/ ColorSleep
    \/ GetColor
    \/ DetectReturns
    \/ DetectRaises
    \/ PubMask
    \/ PubViz
    \/ PubResult
    \/ DerivePose
    \/ PubPose
    \/ DepthArrives
    \/ ColorArrives
    \/ SignalShutdown

Spec == Init /\ [][Next]_vars

\* main is the process's one thread and keeps running: its steps are
\* taken whenever one changes the state.
FairSpec == Spec /\ WF_vars(Loop)

\* ------------------------------------------------------------ claims
\* The positions of main between detect_planes returning and the end of
\* the cycle.
Publishing == { "PUB_MASK", "PUB_VIZ", "PUB_RESULT", "DERIVE_POSE", "PUB_POSE" }

\* The positions of main inside the wait for a colour frame.
WaitingColor == { "WAITING_COLOR", "COLOR_SLEEP", "GET_COLOR" }

\* Every sink has received one message per detection that returned.
AllPublished ==
    /\ nMask = detections
    /\ nViz = detections
    /\ nResult = detections
    /\ nPose = detections

\* The quotient num / sqrt(sumsq) is a number in [-1, 1].
InUnitInterval(a) == a.sumsq > 0 /\ a.num * a.num <= a.sumsq

\* C1: for every non-empty plane list the pose publisher hands over a Pose
\* whose position is (n[0], n[1], n[2]) of the first plane's normal.
C1_PositionIsRawNormal ==
    (planes # << >> /\ (pc = "PUB_POSE" \/ (pc = "ERROR" /\ err = "pose")))
        => /\ pc = "PUB_POSE"
           /\ pos.position = << planes[1].w[1], planes[1].w[2], planes[1].w[3] >>

\* C2: every published PlanesResults has N equal to the number of planes of
\* the cycle, 3N norms, 3N center_3d, 2N center_2d and 3N mask_color entries.
C2_ResultLengths ==
    nResult > 0 =>
        /\ lastResult.N >= 0
        /\ Len(lastResult.norms) = 3 * lastResult.N
        /\ Len(lastResult.center_3d) = 3 * lastResult.N
        /\ Len(lastResult.center_2d) = 2 * lastResult.N
        /\ Len(lastResult.mask_color) = 3 * lastResult.N
        /\ (pc \in { "DERIVE_POSE", "PUB_POSE" } => lastResult.N = Len(planes))

\* C2 witness: a result built from the longest plane list has been published.
C2_Witness ==
    /\ pc = "DERIVE_POSE"
    /\ Len(planes) = MaxPlanes
    /\ lastResult.N = MaxPlanes
    /\ Len(lastResult.center_2d) = 2 * MaxPlanes

\* C3: shutdown requested while main waits for a colour frame: unless a
\* colour frame arrives, main eventually reaches SHUTDOWN.
C3_ShutdownWhileWaitingColor ==
    (shutdown /\ pc \in WaitingColor) ~> (pc = "SHUTDOWN" \/ colorSlot # 0)

\* C4: the four sinks receive their messages in the order mask, viz,
\* result, pose, none before detection returned, and outside the publishing
\* stage each has received one message per detection that returned.
C4_FourPublishesPerDetection ==
    /\ nMask <= detections
    /\ nViz <= nMask
    /\ nResult <= nViz
    /\ nPose <= nResult
    /\ nMask <= nPose + 1
    /\ (pc \notin Publishing => AllPublished)

\* C5: for a first plane whose normal has a nonzero component, every
\* argument given to arccos lies in [-1, 1].
C5_ArccosArgsInRange ==
    \A i \in DOMAIN acosArgs : InUnitInterval(acosArgs[i])

\* The PlanesResults message of a cycle without planes.
ZeroPlanesResult ==
    [ N |-> 0, norms |-> << >>, center_3d |-> << >>, center_2d |-> << >>,
      mask_color |-> << >> ]

\* C6: a cycle whose plane list is empty is no error: mask and viz are
\* published, the result has N = 0 and four empty sequences, the pose is the
\* zero default, and main returns to the top of the loop.
C6_EmptyListCycle ==
    /\ [](planes = << >> /\ pc \in { "DERIVE_POSE", "PUB_POSE" }
            => /\ lastResult = ZeroPlanesResult
               /\ nMask = detections
               /\ nViz = detections
               /\ nResult = detections)
    /\ [](planes = << >> /\ pc = "PUB_POSE" => pos = DefaultPose)
    /\ [][planes = << >> /\ pc \in Publishing => pc' # "ERROR"]_vars
    /\ [][planes = << >> /\ pc = "PUB_POSE" /\ pc' # pc
            => /\ pc' = "WAITING_DEPTH"
               /\ lastPose' = DefaultPose
               /\ AllPublished']_vars

\* C6 witness: two cycles without planes have completed, the second after
\* the first, each publishing the zero pose.
C6_Witness ==
    /\ pc = "WAITING_DEPTH"
    /\ planes = << >>
    /\ nPose = 2
    /\ nMask = 2
    /\ lastPose = DefaultPose
    /\ lastResult = ZeroPlanesResult

\* C7: without a colour subscriber main never waits for a colour frame: it
\* goes from the consumed depth frame straight to detection, with color =
\* None; the colour wait is entered only with a colour subscriber and a
\* depth frame ready.
C7_NoColorNoWait ==
    /\ [](~colorConfigured => pc \notin WaitingColor)
    /\ [](~colorConfigured /\ pc = "DETECTING" => color = 0 /\ depth # 0)
    /\ [][~colorConfigured /\ pc = "GET_DEPTH" /\ pc' # pc
            => pc' = "DETECTING"]_vars
    /\ [][pc' \in WaitingColor /\ pc \notin WaitingColor
            => colorConfigured /\ pc = "GET_DEPTH" /\ depthSlot # 0]_vars

\* C7 witness: no colour subscriber, and detection is about to be invoked on
\* a consumed depth frame and no colour frame.
C7_Witness ==
    /\ ~colorConfigured
    /\ pc = "DETECTING"
    /\ depth # 0
    /\ color = 0
    /\ cSeq = 0

\* C8: when detect_planes raises, main ends with that error: nothing is
\* published for the cycle and no later cycle runs.
C8_DetectErrorPropagates ==
    /\ [](err = "detect" => pc = "ERROR" /\ AllPublished)
    /\ [][pc = "DETECTING" /\ pc' = "ERROR"
            => /\ err' = "detect"
               /\ UNCHANGED << nMask, nViz, nResult, nPose, lastResult,
                               lastPose, detections >>]_vars
    /\ [][pc = "ERROR" => UNCHANGED vars]_vars

\* C8 witness: detect_planes raised in the cycle after a completed one.
C8_Witness ==
    /\ pc = "ERROR"
    /\ err = "detect"
    /\ detections = 1
    /\ nPose = 1
    /\ depth = 2

\* The positions of main from the call of detect_planes to the last publish.
MidCycle == { "DETECTING" } \cup Publishing

\* C9: main leaves the loop on shutdown only from the top of the loop. When
\* shutdown is requested while detect_planes runs or during publishing, the
\* cycle, once detect_planes has returned, goes on through all four
\* publishes: it leaves the publishing stage only for the top of the loop,
\* every sink holding one message per detection that returned.
C9_ShutdownOnlyAtTop ==
    /\ [][pc' = "SHUTDOWN" /\ pc # "SHUTDOWN"
            => pc = "WAITING_DEPTH" /\ shutdown /\ AllPublished]_vars
    /\ [][shutdown /\ pc \in Publishing /\ pc' # pc
            => pc' \in Publishing \cup { "WAITING_DEPTH" }]_vars
    /\ [][shutdown /\ pc \in MidCycle /\ pc' = "WAITING_DEPTH"
            => AllPublished']_vars
    /\ [](shutdownAt \in MidCycle /\ pc \in Terminal /\ err # "detect"
            => pc = "SHUTDOWN" /\ detections >= 1 /\ AllPublished)

\* Pose derivations that completed without an error.
PoseDerivations == nPose + (IF pc = "PUB_POSE" THEN 1 ELSE 0)

\* C10: nothing is published before the cycle's pose is derived, and a cycle
\* whose pose derivation fails has published none of its outputs.
C10_AllOrNone ==
    /\ nMask <= PoseDerivations
    /\ nViz <= PoseDerivations
    /\ nResult <= PoseDerivations
    /\ (err = "pose" => nMask = nPose /\ nViz = nPose /\ nResult = nPose)

\* C10 as amended: nothing is published before detection returned; the pose
\* is derived only after mask, viz and result of the cycle are published, so
\* a cycle whose pose derivation fails has published those three and no pose.
C10_PoseDerivedAfterThreePublishes ==
    /\ nMask <= detections
    /\ nViz <= detections
    /\ nResult <= detections
    /\ nPose <= detections
    /\ PoseDerivations <= nMask
    /\ PoseDerivations <= nViz
    /\ PoseDerivations <= nResult
    /\ (err = "pose"
          => nMask = nPose + 1 /\ nViz = nPose + 1 /\ nResult = nPose + 1)

\* C10 witness: the pose derivation of the second cycle failed after its
\* mask, viz and result were published.
C10_Witness ==
    /\ pc = "ERROR"
    /\ err = "pose"
    /\ nPose = 1
    /\ nMask = 2
    /\ nViz = 2
    /\ nResult = 2

\* Two plane lists are both empty, or their first planes have the same
\* normal.
SameFirstNormal(l1, l2) ==
    \/ l1 = << >> /\ l2 = << >>
    \/ l1 # << >> /\ l2 # << >> /\ l1[1].w = l2[1].w

Group(flat, i, k) == SubSeq(flat, k * (i - 1) + 1, k * i)

\* C12: the i-th group of norms, center_3d, center_2d and mask_color of the
\* published PlanesResults is the corresponding attribute of the i-th plane
\* of the cycle's list, and there is one group per plane.
C12_AggregationKeepsOrder ==
    pc \in { "DERIVE_POSE", "PUB_POSE" } =>
        /\ lastResult.N = Len(planes)
        /\ \A i \in 1..Len(planes) :
              /\ Group(lastResult.norms, i, 3) = planes[i].w
              /\ Group(lastResult.center_3d, i, 3) = planes[i].pts_3d_center
              /\ Group(lastResult.center_2d, i, 2) = planes[i].pts_2d_center
              /\ Group(lastResult.mask_color, i, 3) = planes[i].mask_color

\* C12 witness: a result published from two different planes, in the order
\* the detector returned them.
C12_Witness ==
    /\ pc = "DERIVE_POSE"
    /\ Len(planes) = 2
    /\ planes[1].w = << 2, -1, 2 >>
    /\ planes[2].w = << 0, 0, 1 >>
    /\ lastResult.norms = << 2, -1, 2, 0, 0, 1 >>
    /\ lastResult.center_2d = << 7, 8, 3, 4 >>

\* The component n[i] / ||n|| of the unit-normalised normal n.
UnitComponent(n, i) == [ num |-> n[i], sumsq |-> SumSq(n) ]

\* RotX(arccos(u_x)) * RotY(arccos(u_y)) * RotZ(arccos(u_z)) for the
\* unit-normalised normal u of n.
XYZOrientation(n) ==
    [ kind |-> "product",
      factors |-> << AxisQuat("x", UnitComponent(n, 1)),
                     AxisQuat("y", UnitComponent(n, 2)),
                     AxisQuat("z", UnitComponent(n, 3)) >> ]

\* C13: for a non-empty plane list the pose publisher takes the arccos of
\* the three components of the first plane's unit-normalised normal and
\* hands over the orientation RotX * RotY * RotZ of those angles.
C13_OrientationIsXYZProduct ==
    (planes # << >> /\ (pc = "PUB_POSE" \/ (pc = "ERROR" /\ err = "pose")))
        => /\ pc = "PUB_POSE"
           /\ acosArgs = << UnitComponent(planes[1].w, 1),
                            UnitComponent(planes[1].w, 2),
                            UnitComponent(planes[1].w, 3) >>
           /\ pos.orientation = XYZOrientation(planes[1].w)

\* C14: as long as no shutdown is requested and detect_planes returns, main
\* does not end: the publishing stage is left only for the top of the loop.
C14_NeverEndsOnItsOwn ==
    /\ (~shutdown => pc # "SHUTDOWN")
    /\ err # "pose"

\* C15: with the configuration file missing, main never enters the loop:
\* no frame is taken from a subscriber, detect_planes is not called and
\* nothing is published.
C15_MissingConfigIsFatal ==
    /\ [](~configExists =>
            /\ pc \in { "START", "READ_CONFIG", "ERROR" }
            /\ publishers = 0
            /\ depthTaken = 0
            /\ colorTaken = 0
            /\ (pc = "ERROR" => err = "config")
            /\ depth = 0
            /\ color = 0
            /\ detections = 0
            /\ nMask = 0
            /\ nViz = 0
            /\ nResult = 0
            /\ nPose = 0
            /\ lastResult = NoResults
            /\ lastPose = NoPose)
    /\ [][~configExists /\ pc = "READ_CONFIG" /\ pc' # pc
            => pc' = "ERROR" /\ err' = "config"]_vars
    /\ [](err = "config" => ~configExists)

\* C15 witness: main has ended at start-up because the file is missing,
\* with a depth frame delivered meanwhile and left in the subscriber.
C15_Witness ==
    /\ ~configExists
    /\ pc = "ERROR"
    /\ err = "config"
    /\ depthSlot = 1
    /\ depth = 0
    /\ nMask = 0
    /\ nPose = 0

\* detect_planes calls made so far: those that returned, the one running
\* or about to run, and the one that raised.
DetectCalls ==
    detections + (IF pc = "DETECTING" \/ err = "detect" THEN 1 ELSE 0)

\* C16: whatever the interleaving of frame arrivals and steps of main, each
\* detect_planes call has its own get_image of the depth slot and, with a
\* colour subscriber, its own later get_image of the colour slot; every
\* frame taken is newer than the one taken before, so none is passed twice;
\* depth is not touched between its get_image and detect_planes; and a
\* depth frame arriving meanwhile stays buffered, replaced only by a newer
\* arrival, until the next cycle takes it.
C16_OneConsumptionPerDetect ==
    /\ [](depthTaken = DetectCalls + (IF pc \in WaitingColor THEN 1 ELSE 0))
    /\ [](colorTaken = (IF colorConfigured THEN DetectCalls ELSE 0))
    /\ [](depthSlot \in { 0, dSeq } /\ colorSlot \in { 0, cSeq })
    /\ [](pc = "DETECTING" =>
            /\ depth # 0
            /\ depthSlot # depth
            /\ (colorConfigured => color # 0 /\ colorSlot # color)
            /\ (~colorConfigured => color = 0))
    /\ [][depth' # depth
            => /\ pc = "GET_DEPTH"
               /\ depth' = depthSlot
               /\ depth' > depth
               /\ depthSlot' = 0]_vars
    /\ [][color' # color
            => /\ pc = "GET_COLOR"
               /\ color' = colorSlot
               /\ color' > color
               /\ colorSlot' = 0
               /\ depthTaken = colorTaken + 1]_vars
    /\ [][depthSlot' # depthSlot /\ pc # "GET_DEPTH"
            => depthSlot' = dSeq' /\ dSeq' = dSeq + 1]_vars

\* C16 witness: detect_planes is about to run on depth frame 1 and a colour
\* frame, each taken once, while depth frame 2, which arrived after frame 1
\* was taken, waits in the depth slot.
C16_Witness ==
    /\ pc = "DETECTING"
    /\ colorConfigured
    /\ depth = 1
    /\ color # 0
    /\ depthSlot = 2
    /\ depthTaken = 1
    /\ colorTaken = 1

====
